---- MODULE Spec2Model ----
(***************************************************************************)
(* A model of src/app.py: the GitHub commit dashboard.                     *)
(*                                                                         *)
(* The program fetches one page of commits at import time (module level),  *)
(* then serves the Dash callback update_dashboard, which fetches again for *)
(* the owner/repo typed by the user and returns seven outputs.             *)
(*                                                                         *)
(* Encoding of Python values:                                              *)
(*   - a str is a sequence of one-character strings; None (for the two     *)
(*     text inputs) is the one-element sequence <<"None">>;                *)
(*   - a timestamp is a day number, day 0 being a Monday (only the day is  *)
(*     used by resample("W") and by .date());                              *)
(*   - a JSON null login is the string "None" (the missing value that      *)
(*     fillna replaces);                                                   *)
(*   - a DataFrame is the sequence of its rows, restricted to the columns  *)
(*     the callback reads (commit_date, author_login);                     *)
(*   - a formatted text (a metric, a message, a title) is the sequence of  *)
(*     its fragments.                                                      *)
(***************************************************************************)
EXTENDS Integers, Sequences, FiniteSets, TLC

VARIABLES
    proc,             \* "importing" | "serving" | "crashed"
    df_commits,       \* module-level df_commits (line 61)
    commits_per_week, \* module-level commits_per_week (lines 63-73)
    cycle,            \* the latest fetch cycle ("startup", "click", or a load
                      \* "request" not handled yet): its inputs and the
                      \* handler's locals
    out,              \* the seven outputs shown by the layout
    had_data          \* whether the page showed a successful cycle's data before
                      \* the latest cycle

vars == <<proc, df_commits, commits_per_week, cycle, out, had_data>>

---------------------------------------------------------------------------
(* Bounds of the model.                                                    *)

\* Longest text typed into the owner input.
MaxInputLen == 1
\* Longest JSON array answered to a load cycle of the served application.
MaxAppItems == 1
\* Longest JSON array handed to the pipeline in the aggregation runs.
MaxItems == 3
\* Last day number a commit of those arrays may carry.
MaxDay == 14
\* Longest JSON array of the contributor-ranking runs.
MaxRankRows == 11

---------------------------------------------------------------------------
(* Program constants.                                                      *)

\* per_page default of fetch_commits.
PER_PAGE == 100
\* .head(10) of the contributor ranking.
TopN == 10
\* resample("W"): seven-day bins ...
DaysPerWeek == 7
\* ... labelled by the Sunday that ends them (W = W-SUN), Monday being 0.
WeekEndDay == 6

GITHUB_OWNER == <<"p", "l", "o", "t", "l", "y">>
GITHUB_REPO == <<"d", "a", "s", "h">>
DEFAULT_OWNER == <<"p", "a", "n", "d", "a", "s", "-", "d", "e", "v">>
DEFAULT_REPO == <<"p", "a", "n", "d", "a", "s">>

\* The em dash shown by an empty metric card.
placeholder == <<"--">>
None == "None"
NoneInput == <<"None">>
Whitespace == {" "}

---------------------------------------------------------------------------
(* Python and pandas primitives used by the program.                       *)

Min(a, b) == IF a <= b THEN a ELSE b

\* Truthiness of a text input: None and "" are falsy.
Truthy(s) == s # NoneInput /\ s # <<>>

RECURSIVE lstrip(_)
lstrip(s) ==
    IF s # <<>> /\ Head(s) \in Whitespace THEN lstrip(Tail(s)) ELSE s

RECURSIVE rstrip(_)
rstrip(s) ==
    IF s # <<>> /\ s[Len(s)] \in Whitespace
    THEN rstrip(SubSeq(s, 1, Len(s) - 1))
    ELSE s

\* str.strip(): leading and trailing whitespace removed.
strip(s) == rstrip(lstrip(s))

Digit(n) == <<"0", "1", "2", "3", "4", "5", "6", "7", "8", "9">>[n + 1]

\* str(n) of a non-negative int: its decimal digits.
RECURSIVE str(_)
str(n) == IF n < 10 THEN <<Digit(n)>> ELSE str(n \div 10) \o <<Digit(n % 10)>>

\* Timestamp.date() rendered by an f-string: the day, as text.
DateStr(d) == <<"day ">> \o str(d)

\* pd.to_datetime(..., errors="coerce") of one raw value: NaT unless it parses.
to_datetime(raw) ==
    IF raw.kind = "iso" THEN [nat |-> FALSE, day |-> raw.day]
    ELSE [nat |-> TRUE, day |-> 0]

\* Mutant of dropna: the rows without a date are kept.
dropna_skipped(rows) == rows

\* df.dropna(subset=["commit_date"])
dropna(rows) == SelectSeq(rows, LAMBDA r : ~r.commit_date.nat)

InsertByDate(sorted, r) ==
    LET k == Cardinality({i \in 1..Len(sorted) :
                              sorted[i].commit_date <= r.commit_date})
    IN  SubSeq(sorted, 1, k) \o <<r>> \o SubSeq(sorted, k + 1, Len(sorted))

\* df.sort_values("commit_date"): ascending, equal dates keep their order.
RECURSIVE sort_values(_)
sort_values(rows) ==
    IF rows = <<>> THEN <<>>
    ELSE InsertByDate(sort_values(SubSeq(rows, 1, Len(rows) - 1)), rows[Len(rows)])

\* Mutant of fillna: the missing logins are left missing.
fillna_skipped(df) == [i \in 1..Len(df) |-> df[i].author_login]

\* Series.fillna("unknown") on the author_login column.
fillna(df) ==
    [i \in 1..Len(df) |->
        IF df[i].author_login = None THEN "unknown" ELSE df[i].author_login]

\* The distinct values of a column, in order of first appearance.
RECURSIVE unique(_)
unique(col) ==
    IF col = <<>> THEN <<>>
    ELSE LET u == unique(SubSeq(col, 1, Len(col) - 1))
             x == col[Len(col)]
         IN  IF \E i \in 1..Len(u) : u[i] = x THEN u ELSE Append(u, x)

CountOf(col, x) == Cardinality({i \in 1..Len(col) : col[i] = x})

\* How the sort of value_counts orders equal counts depends on the pandas and
\* numpy build: by first appearance, or the reverse.
TiePolicies == {"first", "last"}

\* Mutant of value_counts: by count ascending.
value_counts_ascending(col, tie) ==
    LET u == unique(col)
        c == [i \in 1..Len(u) |-> CountOf(col, u[i])]
        Before(j, i) == IF tie = "first" THEN j < i ELSE j > i
        pos == [i \in 1..Len(u) |->
                   1 + Cardinality({j \in 1..Len(u) :
                           c[j] < c[i] \/ (c[j] = c[i] /\ Before(j, i))})]
    IN  [k \in 1..Len(u) |->
            LET i == CHOOSE i \in 1..Len(u) : pos[i] = k
            IN  [author_login |-> u[i], commit_count |-> c[i]]]

\* Series.value_counts(): one row per distinct value, by count descending.
value_counts(col, tie) ==
    LET u == unique(col)
        c == [i \in 1..Len(u) |-> CountOf(col, u[i])]
        Before(j, i) == IF tie = "first" THEN j < i ELSE j > i
        pos == [i \in 1..Len(u) |->
                   1 + Cardinality({j \in 1..Len(u) :
                           c[j] > c[i] \/ (c[j] = c[i] /\ Before(j, i))})]
    IN  [k \in 1..Len(u) |->
            LET i == CHOOSE i \in 1..Len(u) : pos[i] = k
            IN  [author_login |-> u[i], commit_count |-> c[i]]]

\* Mutant of head: nothing is cut.
head_unbounded(s, n) == s

\* .head(n)
head(s, n) == SubSeq(s, 1, Min(n, Len(s)))

WeekOf(d) == d \div DaysPerWeek
WeekLabel(w) == DaysPerWeek * w + WeekEndDay

SetMin(S) == CHOOSE x \in S : \A y \in S : x <= y
SetMax(S) == CHOOSE x \in S : \A y \in S : x >= y

\* Mutant of resample_W_size: a groupby of the weeks that have commits.
resample_W_size_no_fill(df) ==
    LET weeks == {df[i].commit_date \div 7 : i \in 1..Len(df)}
        below(w) == Cardinality({v \in weeks : v < w})
    IN  [k \in 1..Cardinality(weeks) |->
            LET w == CHOOSE w \in weeks : below(w) = k - 1
            IN  [commit_date |-> 7 * w + 6,
                 commit_count |-> Cardinality({i \in 1..Len(df) :
                     df[i].commit_date \div 7 = w})]]

\* df.set_index("commit_date").resample("W").size().rename(...).reset_index():
\* one row per weekly bin from the first commit's week to the last one's.
resample_W_size(df) ==
    IF df = <<>> THEN <<>>
    ELSE LET weeks == {WeekOf(df[i].commit_date) : i \in 1..Len(df)}
             first == SetMin(weeks)
             last == SetMax(weeks)
         IN  [k \in 1..(last - first + 1) |->
                [commit_date |-> WeekLabel(first + k - 1),
                 commit_count |-> Cardinality({i \in 1..Len(df) :
                     WeekOf(df[i].commit_date) = first + k - 1})]]

\* f"{x:.1f}" of x = num / den: tenths, rounded half to even.
RoundTenths(num, den) ==
    LET q == (10 * num) \div den
        r == (10 * num) % den
    IN  IF 2 * r > den \/ (2 * r = den /\ q % 2 = 1) THEN q + 1 ELSE q

Format1f(num, den) ==
    LET t == RoundTenths(num, den)
    IN  str(t \div 10) \o <<".">> \o str(t % 10)

---------------------------------------------------------------------------
(* fetch_commits (lines 13-56).                                            *)

NoException == [type |-> "none", has_response |-> FALSE, status_code |-> 0,
                text |-> ""]

\* Response.raise_for_status(): HTTPError for a 4xx or 5xx status only.
raise_for_status(status) == 400 <= status /\ status < 600

\* The record built from one element of the JSON array (lines 33-45).
Record(item) ==
    [commit_date |->
        IF item.commit.null \/ item.commit.author.null
        THEN [kind |-> "null", day |-> 0]
        ELSE item.commit.author.date,
     author_login |->
        IF item.author.null THEN None ELSE item.author.login]

\* Lines 47-56: the DataFrame of the records, dated, filtered and sorted.
BuildFrame(records) ==
    IF records = <<>> THEN <<>>
    ELSE LET dated == [i \in 1..Len(records) |->
                          [commit_date |-> to_datetime(records[i].commit_date),
                           author_login |-> records[i].author_login]]
             kept == dropna(dated)
             flat == [i \in 1..Len(kept) |->
                          [commit_date |-> kept[i].commit_date.day,
                           author_login |-> kept[i].author_login]]
         IN  sort_values(flat)

\* The result of one call: the request it sent, the exception it raised (if
\* any) and the DataFrame it returned.
fetch_commits(owner, repo, net) ==
    LET request == [owner |-> owner, repo |-> repo, per_page |-> PER_PAGE]
        Raise(e) == [request |-> request, exc |-> e, df |-> <<>>]
        Return(df) == [request |-> request, exc |-> NoException, df |-> df]
    IN  IF net.kind = "transport"
        THEN Raise([type |-> "Exception", has_response |-> FALSE,
                    status_code |-> 0, text |-> "connection failed"])
        ELSE IF net.kind = "http_error"
        THEN Raise([type |-> "HTTPError", has_response |-> FALSE,
                    status_code |-> 0, text |-> "http error"])
        ELSE IF raise_for_status(net.status)
        THEN Raise([type |-> "HTTPError", has_response |-> TRUE,
                    status_code |-> net.status, text |-> "http error"])
        ELSE IF net.body.kind = "malformed"
        THEN Raise([type |-> "Exception", has_response |-> FALSE,
                    status_code |-> 0, text |-> "Expecting value"])
        ELSE IF net.body.kind = "object"
        THEN Raise([type |-> "Exception", has_response |-> FALSE,
                    status_code |-> 0,
                    text |-> "'str' object has no attribute 'get'"])
        ELSE Return(BuildFrame([i \in 1..Len(net.body.items) |->
                                   Record(net.body.items[i])]))

---------------------------------------------------------------------------
(* update_dashboard (lines 248-362).                                       *)

\* px.scatter(title="No data")
empty_fig == [type |-> "scatter", title |-> <<"No data">>, data |-> <<>>]

\* A dcc.Graph of the layout before any callback has returned.
NoFigure == [type |-> "none", title |-> <<>>, data |-> <<>>]

Outputs(fig_commits, fig_contrib, total, authors, range, share, msg) ==
    [commits_graph |-> fig_commits,
     contributors_graph |-> fig_contrib,
     metric_total_commits |-> total,
     metric_unique_authors |-> authors,
     metric_date_range |-> range,
     metric_top_share |-> share,
     error_message |-> msg]

\* Mutant of ErrorReturn: the total-commits metric is left as it was.
ErrorReturn_no_update(msg) ==
    Outputs(empty_fig, empty_fig, <<"no_update">>, placeholder, placeholder,
            placeholder, msg)

\* The tuple every early return of the callback builds around its message.
ErrorReturn(msg) ==
    Outputs(empty_fig, empty_fig, placeholder, placeholder, placeholder,
            placeholder, msg)

\* The handler's locals when it returns before aggregating.
NoAggregates ==
    [commits_per_week |-> <<>>, contributors |-> <<>>, total_commits |-> 0,
     unique_authors |-> 0, top_author |-> "", top_share |-> [num |-> 0, den |-> 1],
     aggregated |-> FALSE]

\* Line 252: "if not owner or not repo".
MissingInput(owner, repo) == ~Truthy(owner) \/ ~Truthy(repo)

\* Lines 266-267: the message of the HTTPError handler.
ApiErrorMessage(e) ==
    <<"GitHub API error (status ">>
    \o (IF e.has_response THEN str(e.status_code) ELSE <<"unknown">>)
    \o <<"). Check that the repository exists and is public.">>

\* Line 285.
UnexpectedMessage(e) == <<"Unexpected error: ", e.text>>

\* Mutant of empty: the check is lost.
empty_never(df) == FALSE

\* DataFrame.empty (line 288).
empty(df) == df = <<>>

\* Lines 342-344.
DateRange(df) ==
    IF df = <<>> THEN <<"NaT">>
    ELSE LET days == {df[i].commit_date : i \in 1..Len(df)}
         IN  DateStr(SetMin(days)) \o <<" -> ">> \o DateStr(SetMax(days))

\* Lines 299-352: the aggregates of a DataFrame.
Aggregate(df, tie) ==
    LET logins == fillna(df)
        counts == value_counts(logins, tie)
    IN  [commits_per_week |-> resample_W_size(df),
         contributors |-> head(counts, TopN),
         total_commits |-> Len(df),
         unique_authors |-> Len(unique(logins)),
         top_author |-> IF counts # <<>> THEN counts[1].author_login ELSE "",
         top_share |-> IF counts # <<>>
                       THEN [num |-> counts[1].commit_count * 100, den |-> Len(df)]
                       ELSE [num |-> 0, den |-> 1],
         aggregated |-> TRUE]

\* Lines 308-362: the figures and metric texts of a successful cycle.
SuccessReturn(owner, repo, df, a) ==
    Outputs(
        [type |-> "line",
         title |-> <<"Commit activity over time for ">> \o owner \o <<"/">> \o repo,
         data |-> a.commits_per_week],
        [type |-> "bar",
         title |-> <<"Top contributors (by number of commits)">>,
         data |-> a.contributors],
        str(a.total_commits),
        str(a.unique_authors),
        DateRange(df),
        IF a.top_author # ""
        THEN <<a.top_author, ": ">> \o Format1f(a.top_share.num, a.top_share.den)
             \o <<"% of commits">>
        ELSE placeholder,
        <<>>)

\* One invocation of the callback: what it returns ("ret") and what it did
\* (the requests it sent, the exception it caught, its locals).
update_dashboard(owner, repo, net, tie) ==
    IF MissingInput(owner, repo)
    THEN [ret |-> ErrorReturn(<<"Please enter both owner and repo.">>),
          requests |-> <<>>, exc |-> NoException, df_commits |-> <<>>,
          agg |-> NoAggregates]
    ELSE LET r == fetch_commits(strip(owner), strip(repo), net)
         IN  IF r.exc.type = "HTTPError"
             THEN [ret |-> ErrorReturn(ApiErrorMessage(r.exc)),
                   requests |-> <<r.request>>, exc |-> r.exc,
                   df_commits |-> <<>>, agg |-> NoAggregates]
             ELSE IF r.exc.type = "Exception"
             THEN [ret |-> ErrorReturn(UnexpectedMessage(r.exc)),
                   requests |-> <<r.request>>, exc |-> r.exc,
                   df_commits |-> <<>>, agg |-> NoAggregates]
             ELSE IF empty(r.df)
             THEN [ret |-> ErrorReturn(<<"No commit data returned (empty result).">>),
                   requests |-> <<r.request>>, exc |-> r.exc,
                   df_commits |-> r.df, agg |-> NoAggregates]
             ELSE LET a == Aggregate(r.df, tie)
                  IN  [ret |-> SuccessReturn(owner, repo, r.df, a),
                       requests |-> <<r.request>>, exc |-> r.exc,
                       df_commits |-> r.df, agg |-> a]

---------------------------------------------------------------------------
(* The inputs: what the user types and what the network answers.           *)

SeqsUpTo(S, n) == UNION {[1..k -> S] : k \in 0..n}

Chars == {" ", "a"}

\* The owner input: None, or a text of spaces and letters.
OwnerInputs ==
    {NoneInput, <<" ", "a", " ">>} \cup SeqsUpTo(Chars, MaxInputLen)
\* The repo input: None, empty, blank, or a name.
RepoInputs == {NoneInput, <<>>, <<" ">>, <<"a">>}

Iso(d) == [kind |-> "iso", day |-> d]
JsonNull == [kind |-> "null", day |-> 0]
BadText == [kind |-> "text", day |-> 0]

\* A commit object of the API: {commit: {author: {date}}, author: {login}}.
Item(date, login) ==
    [commit |-> [null |-> FALSE, author |-> [null |-> FALSE, date |-> date]],
     author |-> [null |-> FALSE, login |-> login]]

\* The same with "commit", "commit.author" or "author" null or absent.
NoCommit(login) ==
    [commit |-> [null |-> TRUE, author |-> [null |-> TRUE, date |-> JsonNull]],
     author |-> [null |-> FALSE, login |-> login]]
NoCommitAuthor(login) ==
    [commit |-> [null |-> FALSE, author |-> [null |-> TRUE, date |-> JsonNull]],
     author |-> [null |-> FALSE, login |-> login]]
NoAuthor(date) ==
    [commit |-> [null |-> FALSE, author |-> [null |-> FALSE, date |-> date]],
     author |-> [null |-> TRUE, login |-> None]]

NoNet == [kind |-> "none", status |-> 0, body |-> [kind |-> "malformed", items |-> <<>>]]
Response(status, body) == [kind |-> "response", status |-> status, body |-> body]
List(items) == [kind |-> "list", items |-> items]
Malformed == [kind |-> "malformed", items |-> <<>>]
Object == [kind |-> "object", items |-> <<>>]
EmptyObject == [kind |-> "empty_object", items |-> <<>>]

\* Status codes: one informational, one success, one redirection that is not
\* followed, one client error, one server error.
PassingStatuses == {103, 200, 304}
FailingStatuses == {404, 500}

\* Commits without a usable date, and a dated commit without a login.
AppItems == {Item(JsonNull, "alice"), Item(BadText, "alice"), Item(Iso(0), None)}
AppBodies ==
    {Malformed, Object, EmptyObject} \cup {List(s) : s \in SeqsUpTo(AppItems, MaxAppItems)}

\* What one request of the served application may meet.
AppNets ==
    {[kind |-> "transport", status |-> 0, body |-> Malformed],
     [kind |-> "http_error", status |-> 0, body |-> Malformed]}
    \cup {Response(s, Object) : s \in FailingStatuses}
    \cup {Response(s, b) : s \in PassingStatuses, b \in AppBodies}

---------------------------------------------------------------------------
(* The program.                                                            *)

CycleOf(kind, owner, repo, net, u) ==
    [kind |-> kind, owner |-> owner, repo |-> repo, net |-> net,
     requests |-> u.requests, exc |-> u.exc, df_commits |-> u.df_commits,
     agg |-> u.agg]

Init ==
    /\ proc = "importing"
    /\ df_commits = <<>>
    /\ commits_per_week = <<>>
    /\ cycle = CycleOf("none", GITHUB_OWNER, GITHUB_REPO, NoNet,
                       [requests |-> <<>>, exc |-> NoException,
                        df_commits |-> <<>>, agg |-> NoAggregates])
    /\ out = Outputs(NoFigure, NoFigure, placeholder, placeholder, placeholder,
                     placeholder, <<>>)
    /\ had_data = FALSE

\* Lines 59-73: the fetch at import time. An exception of fetch_commits is
\* caught by nothing: the import fails and the process ends.
Startup ==
    /\ proc = "importing"
    /\ \E net \in AppNets :
        LET r == fetch_commits(GITHUB_OWNER, GITHUB_REPO, net)
            u == [requests |-> <<r.request>>, exc |-> r.exc, df_commits |-> r.df,
                  agg |-> NoAggregates]
        IN  /\ cycle' = CycleOf("startup", GITHUB_OWNER, GITHUB_REPO, net, u)
            /\ IF r.exc.type # "none"
               THEN /\ proc' = "crashed"
                    /\ UNCHANGED <<df_commits, commits_per_week>>
               ELSE /\ proc' = "serving"
                    /\ df_commits' = r.df
                    /\ commits_per_week' =
                           IF ~empty(r.df) THEN resample_W_size(r.df) ELSE <<>>
    /\ UNCHANGED <<out, had_data>>

\* One click of the load button, served by update_dashboard; Dash then sets
\* all seven outputs to the returned values.
Serve(owner, repo, net, tie) ==
    /\ proc = "serving"
    /\ \E u \in {update_dashboard(owner, repo, net, tie)} :
           /\ cycle' = CycleOf("click", owner, repo, net, u)
           /\ out' = u.ret
    /\ had_data' = cycle.agg.aggregated
    /\ UNCHANGED <<proc, df_commits, commits_per_week>>

Click ==
    \E owner \in OwnerInputs, repo \in RepoInputs :
        IF MissingInput(owner, repo)
        THEN Serve(owner, repo, NoNet, "first")
        ELSE \E net \in AppNets, tie \in TiePolicies : Serve(owner, repo, net, tie)

Next == Startup \/ Click

Spec == Init /\ [][Next]_vars

---------------------------------------------------------------------------
(* The pipeline on larger answers: the served application with one load   *)
(* of DEFAULT_OWNER/DEFAULT_REPO received, which a 200 response will       *)
(* answer; the callback then handles it.                                   *)

\* The Mondays and Sundays up to MaxDay.
AggDays == {d \in 0..MaxDay : d % DaysPerWeek \in {0, WeekEndDay}}

AggItems ==
    {Item(d, l) : d \in {JsonNull, BadText} \cup {Iso(d) : d \in AggDays},
                  l \in {None, "alice"}}
    \cup {NoCommit("alice"), NoCommitAuthor("alice"), NoAuthor(Iso(0))}

RankLogins ==
    <<"u01", "u02", "u03", "u04", "u05", "u06", "u07", "u08", "u09", "u10",
      "u11", "u12", "u13", "u14", "u15", "u16">>

\* The author columns of n rows in which each row is by the author of the
\* row before it or by a new one.
RECURSIVE RankColumns(_)
RankColumns(n) ==
    IF n = 1 THEN {<<1>>}
    ELSE {Append(s, s[n - 1] + d) : s \in RankColumns(n - 1), d \in {0, 1}}

\* One day's commits of up to MaxRankRows rows; the first author may have
\* no login.
RankBodies ==
    {List([i \in 1..Len(s) |->
              Item(Iso(0), IF anon /\ s[i] = 1 THEN None ELSE RankLogins[s[i]])]) :
        s \in UNION {RankColumns(n) : n \in 1..MaxRankRows}, anon \in BOOLEAN}

AggBodies == {List(s) : s \in SeqsUpTo(AggItems, MaxItems)} \cup RankBodies

InitAgg ==
    /\ proc = "serving"
    /\ df_commits = <<>>
    /\ commits_per_week = <<>>
    /\ had_data = FALSE
    /\ out = Outputs(NoFigure, NoFigure, placeholder, placeholder, placeholder,
                     placeholder, <<>>)
    /\ \E body \in AggBodies :
           cycle = CycleOf("request", DEFAULT_OWNER, DEFAULT_REPO,
                           Response(200, body),
                           [requests |-> <<>>, exc |-> NoException,
                            df_commits |-> <<>>, agg |-> NoAggregates])

\* The callback handles the load it received.
Handle ==
    /\ cycle.kind = "request"
    /\ \E owner \in {cycle.owner}, repo \in {cycle.repo}, net \in {cycle.net},
          tie \in TiePolicies : Serve(owner, repo, net, tie)

NextAgg == Handle

SpecAgg == InitAgg /\ [][NextAgg]_vars

---------------------------------------------------------------------------
(* Properties.  Each is stated over the inputs of the latest cycle (what   *)
(* was typed, what the network answered) and reads what the handler did.   *)

Clicked == cycle.kind = "click"
Blank(s) == s = NoneInput \/ s = <<>>
InputMissing == Blank(cycle.owner) \/ Blank(cycle.repo)
Requested == Len(cycle.requests) > 0
Answered == cycle.net.kind = "response"
Status == cycle.net.status
RawItems == cycle.net.body.items

\* The answer is a JSON array (or an empty object, which iterates as one).
ArrayAnswered == Answered /\ cycle.net.body.kind \in {"list", "empty_object"}

\* A commit object whose author date is present and parses.
Dated(item) ==
    /\ ~item.commit.null
    /\ ~item.commit.author.null
    /\ item.commit.author.date.kind = "iso"
DayOfItem(item) == item.commit.author.date.day
HandleOf(item) ==
    IF item.author.null \/ item.author.login = None
    THEN "unknown"
    ELSE item.author.login

Usable == {i \in 1..Len(RawItems) : Dated(RawItems[i])}
Handles == {HandleOf(RawItems[i]) : i \in Usable}
CommitsBy(a) == Cardinality({i \in Usable : HandleOf(RawItems[i]) = a})
CommitsIn(lo, hi) ==
    Cardinality({i \in Usable : lo <= DayOfItem(RawItems[i])
                                /\ DayOfItem(RawItems[i]) <= hi})

\* A load cycle whose fetch returned a table with at least one row.
TableNonEmpty ==
    /\ Clicked /\ Requested /\ ArrayAnswered
    /\ Status >= 200 /\ Status < 300
    /\ Usable # {}

\* A load cycle whose fetch returned a table without rows.
TableEmpty ==
    /\ Clicked /\ Requested /\ ArrayAnswered
    /\ Status < 400
    /\ Usable = {}

DigitValue(ch) == CHOOSE n \in 0..9 : Digit(n) = ch
RECURSIVE ParseInt(_)
ParseInt(s) ==
    IF s = <<>> THEN 0
    ELSE 10 * ParseInt(SubSeq(s, 1, Len(s) - 1)) + DigitValue(s[Len(s)])

RECURSIVE SumCounts(_)
SumCounts(rows) ==
    IF rows = <<>> THEN 0 ELSE rows[1].commit_count + SumCounts(Tail(rows))

PlaceholdersShown ==
    /\ out.commits_graph = empty_fig
    /\ out.contributors_graph = empty_fig
    /\ out.metric_total_commits = placeholder
    /\ out.metric_unique_authors = placeholder
    /\ out.metric_date_range = placeholder
    /\ out.metric_top_share = placeholder

\* The fetch of the latest cycle raised: the transport failed, the status was
\* a 4xx or 5xx, or the body was no JSON array of commit objects.
FetchRaised ==
    /\ Requested
    /\ \/ ~Answered
       \/ Status >= 400
       \/ ~ArrayAnswered

ErrorCase == Clicked /\ (InputMissing \/ FetchRaised \/ TableEmpty)

\* C1: when the latest load cycle ends in an error case (a missing owner or
\* repo, an HTTP error, another exception of the fetch, an empty table), the
\* two figures are the "No data" figure, the four metrics are the placeholder
\* and the message is not empty, whatever the page showed before.
C1_ErrorCaseResetsOutputs ==
    ErrorCase => PlaceholdersShown /\ out.error_message # <<>>

\* C1 witness: a 404 met by a load after the page had shown a successful
\* cycle's data.
C1_Witness ==
    /\ ErrorCase /\ had_data /\ Answered /\ Status = 404
    /\ PlaceholdersShown

\* C2: every answer whose status is not in 200..299 is reported as the API
\* error carrying that status. The code raises for 4xx and 5xx only.
C2_NonSuccessStatusIsApiError ==
    (Clicked /\ Requested /\ Answered /\ ~(Status >= 200 /\ Status < 300))
    => /\ cycle.exc.type = "HTTPError"
       /\ out.error_message =
              <<"GitHub API error (status ">> \o str(Status)
              \o <<"). Check that the repository exists and is public.">>

\* The latest fetch failed: no answer, an answer that is not 2xx, or a body
\* that is not JSON.
FetchFailed ==
    /\ Requested
    /\ \/ ~Answered
       \/ ~(Status >= 200 /\ Status < 300)
       \/ cycle.net.body.kind = "malformed"

\* C4: after a failed fetch, the one at start included, the process is still
\* serving. The fetch at import time is guarded by nothing.
C4_FetchFailureIsNotFatal ==
    (cycle.kind \in {"startup", "click"} /\ FetchFailed) => proc = "serving"

\* C8: a load whose table has no usable row ([] or only rows without a
\* usable date) shows the empty-result message without an exception, and the
\* aggregation never runs on a table without rows.
C8_EmptyTableShortCircuits ==
    /\ TableEmpty =>
          /\ cycle.exc.type = "none"
          /\ ~cycle.agg.aggregated
          /\ out.error_message = <<"No commit data returned (empty result).">>
    /\ cycle.agg.aggregated => Len(cycle.df_commits) > 0 /\ Usable # {}

\* C8 witness: an array whose rows all lack a usable date.
C8_Witness ==
    /\ TableEmpty /\ Len(RawItems) > 0
    /\ out.error_message = <<"No commit data returned (empty result).">>

\* C10: a load cycle either lacks an input and asks for both without a
\* request, or sends exactly one request whose owner and repo are not empty.
\* A blank input passes the check of line 252 and is stripped to "" after it.
C10_FetcherPreconditionMet ==
    Clicked =>
        \/ /\ InputMissing
           /\ ~Requested
           /\ out.error_message = <<"Please enter both owner and repo.">>
        \/ /\ ~InputMissing
           /\ Len(cycle.requests) = 1
           /\ cycle.requests[1].owner # <<>>
           /\ cycle.requests[1].repo # <<>>

Weekly == cycle.agg.commits_per_week
Ranking == cycle.agg.contributors

\* The weekly rows are the data of the first figure, the ranking that of the
\* second.
FiguresShowAggregates ==
    /\ out.commits_graph.data = Weekly
    /\ out.contributors_graph.data = Ranking

C5_Case ==
    /\ TableNonEmpty
    /\ Len(RawItems) = 3
    /\ Usable = {1, 2, 3}
    /\ Cardinality({i \in Usable : RawItems[i].author.null
                                   \/ RawItems[i].author.login = None}) = 2
    /\ Cardinality({i \in Usable : ~RawItems[i].author.null
                                   /\ RawItems[i].author.login = "alice"}) = 1

\* C5, as stated: for that table the ranking is alice with 1, then unknown
\* with 2.
C5_AliceBeforeUnknown ==
    C5_Case =>
        Ranking = <<[author_login |-> "alice", commit_count |-> 1],
                    [author_login |-> "unknown", commit_count |-> 2]>>

\* C5, amended: missing logins are counted as "unknown" (no ranking row has
\* a missing login, and each row counts the commits of its handle), and for
\* that table the ranking is unknown with 2, then alice with 1.
C5_UnknownBeforeAlice ==
    /\ TableNonEmpty =>
          \A k \in 1..Len(Ranking) :
              /\ Ranking[k].author_login # None
              /\ Ranking[k].commit_count = CommitsBy(Ranking[k].author_login)
    /\ C5_Case =>
          /\ Ranking = <<[author_login |-> "unknown", commit_count |-> 2],
                         [author_login |-> "alice", commit_count |-> 1]>>
          /\ out.contributors_graph.data = Ranking

\* C5 witness: that table, aggregated.
C5_Witness ==
    /\ C5_Case
    /\ cycle.agg.aggregated
    /\ Ranking[1].author_login = "unknown"

C7_WeeklyCountsSumToTotal ==
    TableNonEmpty =>
        /\ cycle.agg.aggregated
        /\ Len(cycle.df_commits) = Cardinality(Usable)
        /\ SumCounts(Weekly) = Cardinality(Usable)
        /\ SumCounts(out.commits_graph.data) = Cardinality(Usable)
        /\ cycle.agg.total_commits = Cardinality(Usable)
        /\ ParseInt(out.metric_total_commits) = Cardinality(Usable)

\* C7 witness: rows with and without a usable date, the usable ones in more
\* than one week.
C7_Witness ==
    /\ TableNonEmpty
    /\ Cardinality(Usable) >= 2
    /\ Cardinality(Usable) < Len(RawItems)
    /\ Len(Weekly) >= 2
    /\ SumCounts(Weekly) = Cardinality(Usable)

MaxCommits == CHOOSE c \in {CommitsBy(a) : a \in Handles} :
                  \A a \in Handles : CommitsBy(a) <= c

\* The tenths of a percent the top-share text reads: "<author>: <n>.<d>% of commits".
ShareTenths ==
    LET m == out.metric_top_share
    IN  10 * ParseInt(SubSeq(m, 3, Len(m) - 3)) + DigitValue(m[Len(m) - 1])

\* C9: the top share is 100 * c / total with c the largest commit count of a
\* handle; the author named has c commits; the share lies in [0, 100] and is
\* shown rounded to one decimal; and 1 <= unique authors <= total.
C9_TopShareIsMaxOverTotal ==
    TableNonEmpty =>
        /\ cycle.agg.aggregated
        /\ cycle.agg.top_share.den = Cardinality(Usable)
        /\ cycle.agg.top_share.num = 100 * MaxCommits
        /\ cycle.agg.top_share.num >= 0
        /\ cycle.agg.top_share.num <= 100 * cycle.agg.top_share.den
        /\ cycle.agg.top_author \in Handles
        /\ CommitsBy(cycle.agg.top_author) = MaxCommits
        /\ out.metric_top_share[1] = cycle.agg.top_author
        /\ ShareTenths >= 0 /\ ShareTenths <= 1000
        /\ 2 * (ShareTenths * Cardinality(Usable) - 1000 * MaxCommits)
               <= Cardinality(Usable)
        /\ 2 * (1000 * MaxCommits - ShareTenths * Cardinality(Usable))
               <= Cardinality(Usable)
        /\ cycle.agg.unique_authors = Cardinality(Handles)
        /\ 1 <= cycle.agg.unique_authors
        /\ cycle.agg.unique_authors <= cycle.agg.total_commits
        /\ ParseInt(out.metric_unique_authors) = cycle.agg.unique_authors

\* C9 witness: several handles, the top one with a share that needs rounding.
C9_Witness ==
    /\ TableNonEmpty
    /\ Cardinality(Handles) >= 2
    /\ MaxCommits = 2
    /\ Cardinality(Usable) = 3
    /\ ShareTenths = 667

====
